---------------------------- MODULE Spec2Model ----------------------------
(***************************************************************************)
(* A model of the shin-asm compiler core:                                  *)
(*   - the constant-expression evaluator (compile/constexpr.rs),           *)
(*   - the instruction router (compile/hir/lower/instruction/router.rs),   *)
(*   - the parse result (syntax/mod.rs),                                   *)
(* of the typed ids of shin-core (vm/command/types/id.rs), and of the      *)
(* sound that shin-audio hands to the mixer (shin-audio/src/sound.rs).     *)
(***************************************************************************)
EXTENDS Integers, Sequences, FiniteSets, TLC

VARIABLES
    context,      \* ConstexprContext: Name -> ConstexprContextValue
    exprs,        \* HirBlockBody.exprs: the expression arena, ExprId = index
    parented,     \* the ExprIds already used as an operand of another node
    ret,          \* what the last constexpr_evaluate call did
    router,       \* the Router chain, most recently added link first
    added,        \* the RouterBuilder::add calls made so far, in order
    built,        \* RouterBuilder::build has been called
    collectors,   \* FromHirCollectors: the diagnostics emitted so far
    dispatches,   \* the Router::handle_instr calls made so far, in order
    parsed,       \* the last SourceFile::parse call: its text and its result
    untyped,      \* Parse::to_syntax of that result, once it has been taken
    casts,        \* the Parse::cast calls made on it so far, in order
    checked,      \* Parse::ok of that result, once it has been taken
    idType,       \* the instantiation of Id<T, SENTINEL> and the build
    held,         \* the Id the program holds, if it holds one
    idCall,       \* the last call on Id or IdOpt and what it returned
    sound,        \* AudioSound: state, the three tweeners, the sample provider
    commands,     \* the ring buffer between the handle and the sound
    pushes,       \* the number of commands the handle has pushed
    shared,       \* Shared::wait_status, the atomic both threads see
    audio_pc,     \* where the audio thread is: idle, in on_start_processing
                  \* (draining, storing), or past the drop of the sound
    last_finished,\* finished() returned true and no call followed it
    observed      \* what a waiting thread read from wait_status after the drop

vars ==
    <<context, exprs, parented, ret, router, added, built, collectors,
      dispatches, parsed, untyped, casts, checked, idType, held, idCall,
      sound, commands, pushes, shared, audio_pc, last_finished, observed>>

constexprVars == <<context, exprs, parented, ret>>
routerVars == <<router, added, built, collectors, dispatches>>
parseVars == <<parsed, untyped, casts, checked>>
idVars == <<idType, held, idCall>>
audioVars ==
    <<sound, commands, pushes, shared, audio_pc, last_finished, observed>>

-----------------------------------------------------------------------------
(* Bounds of the model                                                     *)

\* the number of nodes of the expression arena (all Expr variants)
MaxExprs == 3
\* the number of nodes of the expression arena (integer arithmetic only)
MaxArithExprs == 5
\* the number of RouterBuilder::add calls
MaxLinks == 3
\* the number of handle_instr calls on one built router
MaxDispatches == 2
\* the number of characters of a source text
MaxTextLen == 3
\* the number of Parse::cast calls on one parse result
MaxCasts == 2
\* the number of commands the handle of a sound pushes
MaxCommands == 3

-----------------------------------------------------------------------------
(* i32                                                                     *)

I32_MAX == 2147483647
I32_MIN == -I32_MAX - 1

\* the i32 values the integer literals are drawn from
IntSamples == {I32_MIN, -1, 0, 2, I32_MAX}

\* the literals of the arithmetic-only blocks
ArithSamples == {2, 3, 4, I32_MAX}

None == [tag |-> "None"]
Some(v) == [tag |-> "Some", value |-> v]

\* the byte positions of a wide (64-bit) two's complement word, least
\* significant first
WideIdx == 1..8

\* i32 as i64: the little-endian bytes of the sign-extended value
SignExtend(a) ==
    [i \in WideIdx |->
        IF i <= 4 THEN (a \div (256 ^ (i - 1))) % 256
        ELSE IF a < 0 THEN 255 ELSE 0]

\* carry propagation over per-byte sums c, truncated to the wide word
RECURSIVE Propagate(_, _, _)
Propagate(c, k, carry) ==
    IF k \notin WideIdx THEN <<>>
    ELSE LET t == c[k] + carry
         IN  <<t % 256>> \o Propagate(c, k + 1, t \div 256)

WideAdd(a, b) ==
    LET x == SignExtend(a)
        y == SignExtend(b)
    IN  Propagate([k \in WideIdx |-> x[k] + y[k]], 1, 0)

WideSub(a, b) ==
    LET x == SignExtend(a)
        y == SignExtend(b)
    IN  Propagate([k \in WideIdx |-> x[k] - y[k]], 1, 0)

RECURSIVE SumProducts(_, _, _, _)
SumProducts(x, y, k, i) ==
    IF i > k THEN 0 ELSE x[i] * y[k + 1 - i] + SumProducts(x, y, k, i + 1)

WideMul(a, b) ==
    LET x == SignExtend(a)
        y == SignExtend(b)
    IN  Propagate([k \in WideIdx |-> SumProducts(x, y, k, 1)], 1, 0)

\* the low 32 bits of a wide word, read as an i32 (the wrapped result)
Low32(w) ==
    w[1] + 256 * w[2] + 65536 * w[3]
        + 16777216 * (IF w[4] >= 128 THEN w[4] - 256 ELSE w[4])

\* the wide word is not the sign extension of its low 32 bits
Overflowed(w) ==
    \E i \in WideIdx \ (1..4) : w[i] # (IF w[4] >= 128 THEN 255 ELSE 0)

\* i32::overflowing_*: the wrapped result and the overflow flag
Overflowing(w) == [value |-> Low32(w), overflow |-> Overflowed(w)]

\* i32::checked_*: None if overflow occurred
Checked(r) == IF r.overflow THEN None ELSE Some(r.value)

wrapping_neg(val) == Some(Low32(WideSub(0, val)))

\* i32::checked_neg: None exactly for i32::MIN
checked_neg(val) == Checked(Overflowing(WideSub(0, val)))

\* the ! operator on i32: the bitwise complement
bitwise_not(val) == -1 - val

checked_add(lhs, rhs) == Checked(Overflowing(WideAdd(lhs, rhs)))

checked_sub(lhs, rhs) == Checked(Overflowing(WideSub(lhs, rhs)))

wrapping_mul(lhs, rhs) == Some(Low32(WideMul(lhs, rhs)))

checked_mul(lhs, rhs) == Checked(Overflowing(WideMul(lhs, rhs)))

FloorDiv(a, b) == a \div b

\* the / operator on i32: the quotient rounded towards zero
TruncDiv(a, b) ==
    IF (a >= 0) = (b > 0) THEN a \div b
    ELSE IF b > 0 THEN (a + b - 1) \div b
    ELSE -((-a) \div b)

\* i32::checked_div: None if rhs == 0 or the division overflows (MIN / -1)
checked_div(lhs, rhs) ==
    IF rhs = 0 \/ (lhs = I32_MIN /\ rhs = -1) THEN None
    ELSE Some(TruncDiv(lhs, rhs))

-----------------------------------------------------------------------------
(* Diagnostics                                                             *)

\* Either<hir::ExprId, Span>
ExprLoc(expr) == [either |-> "Left", expr |-> expr]
SpanLoc(span) == [either |-> "Right", span |-> span]

\* make_diagnostic!(location, message): a diagnostic with no additional label
make_diagnostic(location, message) ==
    [message |-> message, location |-> location, additional_labels |-> <<>>]

\* Diagnostic::with_additional_label: one more labelled location
with_additional_label(diagnostic, message, location) ==
    [diagnostic EXCEPT !.additional_labels =
        Append(@, [message |-> message, location |-> location])]

\* format!(template, args...): the template and what fills its {} holes
Format(template, args) == [template |-> template, args |-> args]

TypeMismatchText(expected, found) ==
    Format("Type mismatch: expected {}, found {}", <<expected, found>>)

type_mismatch_swapped(location, expected, found) ==
    make_diagnostic(location, TypeMismatchText(found, expected))

type_mismatch(location, expected, found) ==
    make_diagnostic(location, TypeMismatchText(expected, found))

RegisterMessage == Format("Registers cannot be used in const context", <<>>)
OverflowMessage == Format("Overflow in constant expression", <<>>)
DivisionByZeroMessage == Format("Division by zero", <<>>)

-----------------------------------------------------------------------------
(* The constant context and the expression arena                           *)

\* LowerResult<ConstexprValue>; Panic stands for a call that unwinds
\* instead of returning
Ok(v) == [tag |-> "Ok", value |-> v]
Err == [tag |-> "Err"]
Panic == [tag |-> "Panic"]

\* ConstexprContextValue
Value(result, span) == [kind |-> "Value", value |-> result, span |-> span]
Block(span) == [kind |-> "Block", span |-> span]

\* the names the context binds, and a name it does not bind
BoundNames == {"VAL", "BAD", "FOO", "BAR"}
Names == BoundNames \cup {"NOPE"}

\* VAL is an evaluated alias, BAD an alias whose evaluation failed,
\* FOO and BAR are code blocks
AliasContext ==
    [n \in BoundNames |->
        CASE n = "VAL" -> Value(Ok(1), None)
          [] n = "BAD" -> Value(Err, None)
          [] n = "FOO" -> Block("S1")
          [] n = "BAR" -> Block("S2")]

UnaryOps == {"Negate", "LogigalNot", "BitwiseNot"}
ArithOps == {"Add", "Subtract", "Multiply", "Divide"}
\* ast::BinaryOp; Modulo stands for every variant other than the four above
BinaryOps == ArithOps \cup {"Modulo"}

\* hir::Expr without operands
LeafExprs ==
    { [kind |-> k] : k \in {"Missing", "String", "RegisterRef", "Array",
                            "Mapping", "Call"} }
    \cup { [kind |-> "IntNumber", value |-> v] : v \in IntSamples }
    \cup { [kind |-> "RationalNumber", raw |-> v] : v \in {1500} }
    \cup { [kind |-> "NameRef", name |-> n] : n \in Names }

\* hir::Expr with operands among the ids in S
UnaryExprs(S) ==
    { [kind |-> "UnaryOp", expr |-> e, op |-> o] : e \in S, o \in UnaryOps }

\* the operator is None when the syntax tree has no (known) operator token
BinaryExprs(S, ops) ==
    { [kind |-> "BinaryOp", lhs |-> l, rhs |-> r, op |-> o] :
        l \in S, r \in S, o \in ops }

Resolved(ops) == { Some(o) : o \in ops }

Operands(e) ==
    CASE e.kind = "UnaryOp" -> {e.expr}
      [] e.kind = "BinaryOp" -> {e.lhs, e.rhs}
      [] OTHER -> {}

-----------------------------------------------------------------------------
(* constexpr.rs                                                            *)

\* EvaluateContext
EvaluateContext(ctxt, diagnostics, block) ==
    [context |-> ctxt, diagnostics |-> diagnostics, block |-> block]

\* what evaluate leaves behind: the context (its diagnostics) and the result
Return(ctx, result) == [ctx |-> ctx, result |-> result]

error_without_push(ctx, diagnostic) == Return(ctx, Err)

\* an error that is reported and then taken for the value 0
error_as_warning(ctx, diagnostic) ==
    Return([ctx EXCEPT !.diagnostics = Append(@, diagnostic)], Ok(0))

\* EvaluateContext::error
error(ctx, diagnostic) ==
    Return([ctx EXCEPT !.diagnostics = Append(@, diagnostic)], Err)

\* the code-reference label pointing at the reference, not the definition
EvalNameRef_label_at_use(ctx, expr, name) ==
    IF name \notin DOMAIN ctx.context THEN Return(ctx, Panic)
    ELSE LET v == ctx.context[name]
         IN  IF v.kind = "Value" THEN Return(ctx, v.value)
             ELSE error(ctx,
                        with_additional_label(
                            type_mismatch(ExprLoc(expr), "int or float",
                                          "code reference"),
                            "Code reference defined at",
                            ExprLoc(expr)))

\* Expr::NameRef: ctx.context[name] unwinds when the name has no entry
EvalNameRef(ctx, expr, name) ==
    IF name \notin DOMAIN ctx.context THEN Return(ctx, Panic)
    ELSE LET v == ctx.context[name]
         IN  IF v.kind = "Value" THEN Return(ctx, v.value)
             ELSE error(ctx,
                        with_additional_label(
                            type_mismatch(ExprLoc(expr), "int or float",
                                          "code reference"),
                            "Code reference defined at",
                            SpanLoc(v.span)))

\* Expr::UnaryOp, once the operand has evaluated to val
\* a logical not that takes every value that is not positive for false
EvalUnaryOp_not_of_positive(ctx, expr, op, val) ==
    LET result ==
            CASE op = "Negate" -> checked_neg(val)
              [] op = "LogigalNot" -> Some(IF val > 0 THEN 0 ELSE 1)
              [] op = "BitwiseNot" -> Some(bitwise_not(val))
    IN  IF result.tag = "Some" THEN Return(ctx, Ok(result.value))
        ELSE error(ctx, make_diagnostic(ExprLoc(expr), OverflowMessage))

EvalUnaryOp(ctx, expr, op, val) ==
    LET result ==
            CASE op = "Negate" -> checked_neg(val)
              [] op = "LogigalNot" -> Some(IF val = 0 THEN 1 ELSE 0)
              [] op = "BitwiseNot" -> Some(bitwise_not(val))
    IN  IF result.tag = "Some" THEN Return(ctx, Ok(result.value))
        ELSE error(ctx, make_diagnostic(ExprLoc(expr), OverflowMessage))

\* the division arm without its test for a zero divisor
EvalBinaryOp_unguarded_divide(ctx, expr, lhs, rhs, op) ==
    IF ~(lhs.tag = "Ok" /\ rhs.tag = "Ok" /\ op # None)
    THEN Return(ctx, Err)
    ELSE IF op.value \notin ArithOps
    THEN Return(ctx, Panic)
    ELSE LET result ==
                 CASE op.value = "Add" -> checked_add(lhs.value, rhs.value)
                   [] op.value = "Subtract" ->
                         checked_sub(lhs.value, rhs.value)
                   [] op.value = "Multiply" ->
                         checked_mul(lhs.value, rhs.value)
                   [] op.value = "Divide" -> checked_div(lhs.value, rhs.value)
         IN  IF result.tag = "Some" THEN Return(ctx, Ok(result.value))
             ELSE error(ctx, make_diagnostic(ExprLoc(expr), OverflowMessage))

\* Expr::BinaryOp, once both operands have been evaluated
EvalBinaryOp(ctx, expr, lhs, rhs, op) ==
    IF ~(lhs.tag = "Ok" /\ rhs.tag = "Ok" /\ op # None)
    THEN Return(ctx, Err)
    ELSE IF op.value \notin ArithOps
    THEN Return(ctx, Panic)
    ELSE IF op.value = "Divide" /\ rhs.value = 0
    THEN error(ctx, make_diagnostic(ExprLoc(expr), DivisionByZeroMessage))
    ELSE LET result ==
                 CASE op.value = "Add" -> checked_add(lhs.value, rhs.value)
                   [] op.value = "Subtract" ->
                         checked_sub(lhs.value, rhs.value)
                   [] op.value = "Multiply" ->
                         checked_mul(lhs.value, rhs.value)
                   [] op.value = "Divide" -> checked_div(lhs.value, rhs.value)
         IN  IF result.tag = "Some" THEN Return(ctx, Ok(result.value))
             ELSE error(ctx, make_diagnostic(ExprLoc(expr), OverflowMessage))

\* a register reported as one more type mismatch
EvalRegisterRef_as_type_mismatch(ctx, expr) ==
    error(ctx, type_mismatch(ExprLoc(expr), "int or float", "register"))

\* Expr::RegisterRef
EvalRegisterRef(ctx, expr) ==
    error(ctx, make_diagnostic(ExprLoc(expr), RegisterMessage))

\* the arms of evaluate that have no operand
EvalLeaf(ctx, expr, e) ==
    CASE e.kind = "Missing" -> Return(ctx, Err)
      [] e.kind = "IntNumber" -> Return(ctx, Ok(e.value))
      [] e.kind = "RationalNumber" -> Return(ctx, Ok(e.raw))
      [] e.kind = "String" ->
            error(ctx, type_mismatch(ExprLoc(expr), "int or float", "string"))
      [] e.kind = "NameRef" -> EvalNameRef(ctx, expr, e.name)
      [] e.kind = "RegisterRef" -> EvalRegisterRef(ctx, expr)
      [] e.kind = "Array" ->
            error(ctx, type_mismatch(ExprLoc(expr), "int or float", "array"))
      [] e.kind = "Mapping" ->
            error(ctx, type_mismatch(ExprLoc(expr), "int or float", "mapping"))
      [] e.kind = "Call" -> Return(ctx, Panic)

RECURSIVE evaluate(_, _)
evaluate(ctx, expr) ==
    LET e == ctx.block[expr]
    IN  CASE e.kind = "UnaryOp" ->
                LET val == evaluate(ctx, e.expr)
                IN  IF val.result.tag # "Ok" THEN val
                    ELSE EvalUnaryOp(val.ctx, expr, e.op, val.result.value)
          [] e.kind = "BinaryOp" ->
                LET lhs == evaluate(ctx, e.lhs)
                IN  IF lhs.result = Panic THEN lhs
                    ELSE LET rhs == evaluate(lhs.ctx, e.rhs)
                         IN  IF rhs.result = Panic THEN rhs
                             ELSE EvalBinaryOp(rhs.ctx, expr, lhs.result,
                                               rhs.result, e.op)
          [] OTHER -> EvalLeaf(ctx, expr, e)

\* constexpr_evaluate: the result and the diagnostics of a fresh list; a
\* call that unwinds returns neither
constexpr_evaluate(ctxt, block, expr) ==
    LET r == evaluate(EvaluateContext(ctxt, <<>>, block), expr)
    IN  IF r.result = Panic
        THEN [expr |-> expr, value |-> Panic, diagnostics |-> <<>>]
        ELSE [expr |-> expr, value |-> r.result,
              diagnostics |-> r.ctx.diagnostics]

NoRet == [expr |-> 0, value |-> None, diagnostics |-> <<>>]

-----------------------------------------------------------------------------
(* router.rs                                                               *)

\* the names handlers are registered under, and the mnemonics dispatched
RegisteredNames == {"NOP", "JMP"}
Mnemonics == RegisteredNames \cup {"nop", "EXIT"}

\* the argument lists of the hir::Instructions of the block, by InstructionId
InstrArgs == << <<>>, <<5>>, <<300>> >>
InstructionIds == DOMAIN InstrArgs

\* the (Args, LowerFn) pairs a link can carry: "unit" takes no argument,
\* "byte" takes one argument and encodes it in 8 bits
LowerFns == {"unit", "byte"}

\* hir::InstructionId as a diagnostic location
InstrLoc(instr) == [instr |-> instr]

\* FromHirCollectors::emit_diagnostic
emit_diagnostic(colls, location, message) ==
    Append(colls, [location |-> location, message |-> message])

\* (the source puts the name between backquotes, which a TLA+ string cannot
\* hold)
UnrecognizedText(instr_name) ==
    Format("Unrecognized instruction: {}", <<instr_name>>)

\* what handle_instr leaves behind: the collectors, the Option<Instruction>
\* and the extractor and lowering calls it made
Handled(colls, result, invoked) ==
    [collectors |-> colls, result |-> result, invoked |-> invoked]

\* Args::from_instr_args of the link's Args type
from_instr_args(lower_fn, colls, instr) ==
    LET arity == IF lower_fn = "unit" THEN 0 ELSE 1
    IN  IF Len(InstrArgs[instr]) = arity
        THEN [collectors |-> colls, args |-> Some(InstrArgs[instr])]
        ELSE [collectors |->
                  emit_diagnostic(colls, InstrLoc(instr),
                                  Format("Wrong number of arguments", <<>>)),
              args |-> None]

\* LowerFn::lower_instr of the link's lowering function
lower_instr(lower_fn, colls, instr_name, instr, args) ==
    IF lower_fn = "byte" /\ args[1] >= 256
    THEN [collectors |->
              emit_diagnostic(colls, InstrLoc(instr),
                              Format("Value out of range", <<>>)),
          result |-> None]
    ELSE [collectors |-> colls,
          result |-> Some([name |-> instr_name, lower_fn |-> lower_fn,
                           args |-> args])]

SentinelRouter_silent(colls, instr_name, instr) == Handled(colls, None, <<>>)

\* a sentinel that starts the report over before it adds its diagnostic
SentinelRouter_resetting(colls, instr_name, instr) ==
    Handled(emit_diagnostic(<<>>, InstrLoc(instr),
                            UnrecognizedText(instr_name)),
            None, <<>>)

\* SentinelRouter::handle_instr
SentinelRouter_handle_instr(colls, instr_name, instr) ==
    Handled(emit_diagnostic(colls, InstrLoc(instr),
                            UnrecognizedText(instr_name)),
            None, <<>>)

\* a matched arm that gives up as soon as the collectors hold a diagnostic
ConsRouter_lower_unless_reported(link, colls, instr_name, instr) ==
    LET extracted == from_instr_args(link.lower_fn, colls, instr)
        called == <<[fn |-> "from_instr_args", link |-> link]>>
    IN  IF colls # <<>>
        THEN Handled(colls, None, <<>>)
        ELSE IF extracted.args = None
        THEN Handled(extracted.collectors, None, called)
        ELSE LET lowered == lower_instr(link.lower_fn, extracted.collectors,
                                        instr_name, instr,
                                        extracted.args.value)
             IN  Handled(lowered.collectors, lowered.result,
                         Append(called, [fn |-> "lower_instr", link |-> link]))

\* a matched arm that hands a failed extraction on to the sentinel
ConsRouter_lower_falls_through(link, colls, instr_name, instr) ==
    LET extracted == from_instr_args(link.lower_fn, colls, instr)
        called == <<[fn |-> "from_instr_args", link |-> link]>>
    IN  IF extracted.args = None
        THEN Handled(SentinelRouter_handle_instr(extracted.collectors,
                                                 instr_name,
                                                 instr).collectors,
                     None, called)
        ELSE LET lowered == lower_instr(link.lower_fn, extracted.collectors,
                                        instr_name, instr,
                                        extracted.args.value)
             IN  Handled(lowered.collectors, lowered.result,
                         Append(called, [fn |-> "lower_instr", link |-> link]))

\* the matched arm of ConsRouter::handle_instr
ConsRouter_lower(link, colls, instr_name, instr) ==
    LET extracted == from_instr_args(link.lower_fn, colls, instr)
        called == <<[fn |-> "from_instr_args", link |-> link]>>
    IN  IF extracted.args = None
        THEN Handled(extracted.collectors, None, called)
        ELSE LET lowered == lower_instr(link.lower_fn, extracted.collectors,
                                        instr_name, instr,
                                        extracted.args.value)
             IN  Handled(lowered.collectors, lowered.result,
                         Append(called, [fn |-> "lower_instr", link |-> link]))

\* the mnemonic in upper case letters
to_ascii_uppercase(instr_name) ==
    IF instr_name = "nop" THEN "NOP" ELSE instr_name

\* a comparison that ignores the case of the letters
NameMatches_ignoring_case(instr_name, name) ==
    to_ascii_uppercase(instr_name) = to_ascii_uppercase(name)

\* instr_name == self.name
NameMatches(instr_name, name) == instr_name = name

\* Router::handle_instr on the chain: ConsRouter links, then SentinelRouter
RECURSIVE handle_instr(_, _, _, _)
handle_instr(chain, colls, instr_name, instr) ==
    IF chain = <<>>
    THEN SentinelRouter_handle_instr(colls, instr_name, instr)
    ELSE IF NameMatches(instr_name, Head(chain).name)
    THEN ConsRouter_lower(Head(chain), colls, instr_name, instr)
    ELSE handle_instr(Tail(chain), colls, instr_name, instr)

\* an add that puts the new link behind the links already there
RouterBuilder_add_at_tail(chain, name, lower_fn) ==
    chain \o <<[name |-> name, lower_fn |-> lower_fn]>>

\* RouterBuilder::add: the new link becomes the head, the old router its tail
RouterBuilder_add(chain, name, lower_fn) ==
    <<[name |-> name, lower_fn |-> lower_fn]>> \o chain

RouterBuilderAdd ==
    /\ ~built
    /\ Len(router) < MaxLinks
    /\ \E name \in RegisteredNames, lower_fn \in LowerFns :
          /\ router' = RouterBuilder_add(router, name, lower_fn)
          /\ added' = Append(added, [name |-> name, lower_fn |-> lower_fn])
    /\ UNCHANGED <<built, collectors, dispatches, constexprVars, parseVars, idVars, audioVars>>

RouterBuilderBuild ==
    /\ ~built
    /\ built' = TRUE
    /\ UNCHANGED <<router, added, collectors, dispatches, constexprVars,
                   parseVars, idVars, audioVars>>

HandleInstr ==
    /\ built
    /\ Len(dispatches) < MaxDispatches
    /\ \E instr_name \in Mnemonics, instr \in InstructionIds :
          LET h == handle_instr(router, collectors, instr_name, instr)
          IN  /\ collectors' = h.collectors
              /\ dispatches' =
                    Append(dispatches,
                           [instr_name |-> instr_name, instr |-> instr,
                            before |-> collectors,
                            after |-> h.collectors, result |-> h.result,
                            invoked |-> h.invoked])
    /\ UNCHANGED <<router, added, built, constexprVars, parseVars, idVars, audioVars>>

-----------------------------------------------------------------------------
(* syntax/mod.rs                                                           *)

\* the characters of a source text: two names and a character that starts no
\* item of the grammar
Chars == {"a", "b", "#"}
Garbage == "#"

\* the source texts: the character sequences of at most MaxTextLen characters
Texts == UNION { [1..n -> Chars] : n \in 0..MaxTextLen }

\* SyntaxKind: the root, a definition of a name, an error node
SyntaxKinds == {"SOURCE_FILE", "ALIAS_DEFINITION", "ERROR"}

GreenNode(kind, text, children) ==
    [kind |-> kind, text |-> text, children |-> children]

\* SyntaxError: a message and the range of the text it is about
SyntaxError(message, range) == [message |-> message, range |-> range]

\* the positions of the sequence of flags that are set, in ascending order
Positions(flags) ==
    LET IsSet(i) == flags[i]
    IN  SelectSeq([i \in DOMAIN flags |-> i], IsSet)

\* parsing::parse_text: the tree keeps every character; a name becomes a
\* definition node, a garbage character an error node in its place with a
\* grammar error at its range
parse_text(text) ==
    LET node(i) ==
            IF text[i] = Garbage
            THEN GreenNode("ERROR", text[i], <<>>)
            ELSE GreenNode("ALIAS_DEFINITION", text[i], <<>>)
        at == Positions([i \in DOMAIN text |-> text[i] = Garbage])
    IN  [green |-> GreenNode("SOURCE_FILE", "",
                             [i \in DOMAIN text |-> node(i)]),
         errors |-> [k \in DOMAIN at |->
                        SyntaxError("unexpected character", at[k])]]

\* SyntaxNode::new_root and SyntaxNode::kind
SyntaxNode_new_root(green) == [green |-> green, offset |-> 0]
SyntaxNode_kind(node) == node.green.kind

\* validation::validate: what the grammar cannot see, here a name that is
\* defined a second time
validate(root) ==
    LET items == root.green.children
        IsDuplicate(i) ==
            /\ items[i].kind = "ALIAS_DEFINITION"
            /\ \E j \in 1..(i - 1) :
                  /\ items[j].kind = "ALIAS_DEFINITION"
                  /\ items[j].text = items[i].text
        at == Positions([i \in DOMAIN items |-> IsDuplicate(i)])
    IN  [k \in DOMAIN at |-> SyntaxError("duplicate definition", at[k])]

\* the AstNode types a tree can be viewed as, and the kind each accepts
AstNodes == {"SourceFile", "AliasDefinition"}
AcceptedKind(N) ==
    IF N = "SourceFile" THEN "SOURCE_FILE" ELSE "ALIAS_DEFINITION"

\* AstNode::cast of the type N
AstNode_cast(N, node) ==
    IF SyntaxNode_kind(node) = AcceptedKind(N)
    THEN Some([ty |-> N, syntax |-> node])
    ELSE None

\* Parse<T>: the green tree, the errors and the type T of the view
Parse(green, errors, ty) == [green |-> green, errors |-> errors, ty |-> ty]

Parse_syntax_node(parse) == SyntaxNode_new_root(parse.green)

Parse_errors(parse) == parse.errors

Parse_to_syntax(parse) == Parse(parse.green, parse.errors, "SyntaxNode")

\* Parse::tree: T::cast(self.syntax_node()).unwrap()
Parse_tree(parse) ==
    LET node == AstNode_cast(parse.ty, Parse_syntax_node(parse))
    IN  IF node = None THEN Panic ELSE node.value

\* Result::Err of Parse::ok: the error list
ErrWith(errors) == [tag |-> "Err", errors |-> errors]

\* an ok that does not look at the errors
Parse_ok_unchecked(parse) ==
    LET tree == Parse_tree(parse)
    IN  IF tree = Panic THEN Panic ELSE Ok(tree)

\* Parse::ok
Parse_ok(parse) ==
    IF Parse_errors(parse) = <<>>
    THEN LET tree == Parse_tree(parse)
         IN  IF tree = Panic THEN Panic ELSE Ok(tree)
    ELSE ErrWith(parse.errors)

\* a cast that does not ask N
Parse_cast_unchecked(parse, N) ==
    Some(Parse(parse.green, parse.errors, N))

\* Parse<SyntaxNode>::cast::<N>
Parse_cast(parse, N) ==
    IF AstNode_cast(N, Parse_syntax_node(parse)) # None
    THEN Some(Parse(parse.green, parse.errors, N))
    ELSE None

\* a parse that gives up on a text with errors
SourceFile_parse_strict(text) ==
    LET parse == parse_text(text)
        root == SyntaxNode_new_root(parse.green)
        errors == parse.errors \o validate(root)
    IN  IF SyntaxNode_kind(root) # "SOURCE_FILE" \/ errors # <<>>
        THEN Panic
        ELSE Parse(parse.green, errors, "SourceFile")

\* a parse that puts the errors of the validation first
SourceFile_parse_validation_first(text) ==
    LET parse == parse_text(text)
        root == SyntaxNode_new_root(parse.green)
        errors == validate(root) \o parse.errors
    IN  IF SyntaxNode_kind(root) # "SOURCE_FILE"
        THEN Panic
        ELSE Parse(parse.green, errors, "SourceFile")

\* SourceFile::parse; the assert_eq! on the kind of the root panics
SourceFile_parse(text) ==
    LET parse == parse_text(text)
        root == SyntaxNode_new_root(parse.green)
        errors == parse.errors \o validate(root)
    IN  IF SyntaxNode_kind(root) # "SOURCE_FILE"
        THEN Panic
        ELSE Parse(parse.green, errors, "SourceFile")

NoParse == [text |-> <<>>, parse |-> None]

SourceFileParse ==
    /\ \E text \in Texts :
          parsed' = [text |-> text, parse |-> SourceFile_parse(text)]
    /\ untyped' = None
    /\ casts' = <<>>
    /\ checked' = None
    /\ UNCHANGED <<constexprVars, routerVars,
                   idVars, audioVars>>

ParseToSyntax ==
    /\ parsed # NoParse
    /\ parsed.parse # Panic
    /\ untyped = None
    /\ untyped' = Some(Parse_to_syntax(parsed.parse))
    /\ UNCHANGED <<parsed, casts, checked, constexprVars, routerVars,
                   idVars, audioVars>>

\* cast consumes a clone of the untyped parse result
ParseCast ==
    /\ untyped # None
    /\ Len(casts) < MaxCasts
    /\ \E N \in AstNodes :
          LET result == Parse_cast(untyped.value, N)
          IN  casts' =
                 Append(casts,
                        [ty |-> N, from |-> untyped.value,
                         result |-> result,
                         tree |-> IF result = None
                                  THEN None
                                  ELSE Parse_tree(result.value)])
    /\ UNCHANGED <<parsed, untyped, checked, constexprVars, routerVars,
                   idVars, audioVars>>

\* ok consumes a clone of the parse result
ParseOk ==
    /\ parsed # NoParse
    /\ parsed.parse # Panic
    /\ checked = None
    /\ checked' = Some(Parse_ok(parsed.parse))
    /\ UNCHANGED <<parsed, untyped, casts, constexprVars, routerVars,
                   idVars, audioVars>>

ParseIdle ==
    /\ parsed = NoParse
    /\ untyped = None
    /\ casts = <<>>
    /\ checked = None

-----------------------------------------------------------------------------
(* vm/command/types/id.rs                                                  *)

LAYERBANKS_COUNT == 48
LAYERS_COUNT == 256
PLANES_COUNT == 4

\* the instantiations of Id<T, SENTINEL>: LayerId, LayerbankId and PlaneId,
\* with the width of T in bits
IdTypes ==
    { [name |-> "LayerId", bits |-> 16, SENTINEL |-> LAYERS_COUNT],
      [name |-> "LayerbankId", bits |-> 8, SENTINEL |-> LAYERBANKS_COUNT],
      [name |-> "PlaneId", bits |-> 8, SENTINEL |-> PLANES_COUNT] }

\* the values of T
T_MAX(bits) == 2 ^ bits - 1

\* the values of T that the calls are made with: those around 0, around
\* SENTINEL and the largest one
TSamples(ty) ==
    { v \in {0, 1, ty.SENTINEL - 2, ty.SENTINEL - 1, ty.SENTINEL,
             ty.SENTINEL + 1, T_MAX(ty.bits) - 1, T_MAX(ty.bits)} :
        v \in 0..T_MAX(ty.bits) }

\* ThroughUsize::into_usize and ThroughUsize::from_usize; the conversion to T
\* unwraps
into_usize(value) == value
from_usize(ty, value) ==
    IF value \in 0..T_MAX(ty.bits) THEN Some(value) ELSE Panic

\* self.0 + T::one(): out of the range of T the addition panics in a build
\* with overflow checks and wraps in one without
T_add_one(ty, value) ==
    IF value + 1 <= T_MAX(ty.bits) THEN Some(value + 1)
    ELSE IF ty.overflow_checks THEN Panic
    ELSE Some((value + 1) % (2 ^ ty.bits))

Id(raw) == [raw |-> raw]
IdOpt(raw) == [opt |-> raw]

\* a try_new whose range includes SENTINEL
Id_try_new_inclusive(ty, value) ==
    IF into_usize(value) \in 0..ty.SENTINEL
    THEN Some(Id(value))
    ELSE None

\* Id::try_new
Id_try_new(ty, value) ==
    IF into_usize(value) \in 0..(ty.SENTINEL - 1)
    THEN Some(Id(value))
    ELSE None

\* Option::expect
expect(option) == IF option.tag = "Some" THEN option ELSE Panic

\* Id::new
Id_new(ty, value) == expect(Id_try_new(ty, value))

Id_raw(self) == self.raw

\* Id::try_next
Id_try_next(ty, self) ==
    LET next == T_add_one(ty, self.raw)
    IN  IF next = Panic THEN Panic
        ELSE IF into_usize(next.value) = ty.SENTINEL THEN None
        ELSE Some(Id(next.value))

\* Id::next
Id_next(ty, self) ==
    LET next == Id_try_next(ty, self)
    IN  IF next = Panic THEN Panic ELSE expect(next)

\* IdOpt::none, IdOpt::some and IdOpt::into_option
IdOpt_none(ty) ==
    LET raw == from_usize(ty, ty.SENTINEL)
    IN  IF raw = Panic THEN Panic ELSE Some(IdOpt(raw.value))

IdOpt_some(self) == IdOpt(self.raw)

IdOpt_into_option(ty, self) ==
    IF into_usize(self.opt) = ty.SENTINEL THEN None ELSE Some(Id(self.opt))

\* a call and what it returned: arg is the T it was made with or on
IdCalled(op, arg, result) == [op |-> op, arg |-> arg, result |-> result]
NoIdCall == IdCalled("none", 0, None)

\* the program keeps the Id that a call returned
Kept(result) == IF result.tag = "Some" THEN result ELSE held

IdTryNew ==
    /\ \E value \in TSamples(idType) :
          LET result == Id_try_new(idType, value)
          IN  /\ idCall' = IdCalled("try_new", value, result)
              /\ held' = Kept(result)
    /\ UNCHANGED <<idType, constexprVars, routerVars, parseVars,
                   audioVars>>

IdNew ==
    /\ \E value \in TSamples(idType) :
          LET result == Id_new(idType, value)
          IN  /\ idCall' = IdCalled("new", value, result)
              /\ held' = Kept(result)
    /\ UNCHANGED <<idType, constexprVars, routerVars, parseVars,
                   audioVars>>

IdTryNext ==
    /\ held # None
    /\ LET result == Id_try_next(idType, held.value)
       IN  /\ idCall' = IdCalled("try_next", Id_raw(held.value), result)
           /\ held' = Kept(result)
    /\ UNCHANGED <<idType, constexprVars, routerVars, parseVars,
                   audioVars>>

IdNext ==
    /\ held # None
    /\ LET result == Id_next(idType, held.value)
       IN  /\ idCall' = IdCalled("next", Id_raw(held.value), result)
           /\ held' = Kept(result)
    /\ UNCHANGED <<idType, constexprVars, routerVars, parseVars,
                   audioVars>>

\* IdOpt::some(id).into_option() of the Id the program holds
IdOptSome ==
    /\ held # None
    /\ idCall' = IdCalled("some", Id_raw(held.value),
                          IdOpt_into_option(idType, IdOpt_some(held.value)))
    /\ UNCHANGED <<idType, held, constexprVars, routerVars, parseVars,
                   audioVars>>

\* an instantiation in a build with or without overflow checks
Built(ty, checks) ==
    [name |-> ty.name, bits |-> ty.bits, SENTINEL |-> ty.SENTINEL,
     overflow_checks |-> checks]

IdIdle ==
    /\ idType = Built(CHOOSE ty \in IdTypes : ty.name = "PlaneId", TRUE)
    /\ held = None
    /\ idCall = NoIdCall

-----------------------------------------------------------------------------
(* shin-audio/src/sound.rs                                                 *)

COMMAND_BUFFER_CAPACITY == 8

\* Tween: its duration in ticks; the durations of the fade in, of a change
\* of volume or panning, and of the fade out of a stop
FadeIns == {0, 1}
ChangeTweens == {1}
StopTweens == {0, 2}

\* the time steps of process, in ticks
Steps == {1, 2}

\* Command
Commands ==
    { [kind |-> "SetVolume", tween |-> t] : t \in ChangeTweens }
    \cup { [kind |-> "SetPanning", tween |-> t] : t \in ChangeTweens }
    \cup { [kind |-> "Stop", tween |-> t] : t \in StopTweens }

\* Tweener: the ticks that are left of its tween, none when it is idle
Tweener_new == 0
Tweener_enqueue_now(self, tween) == tween
Tweener_update(self, dt) == IF self > dt THEN self - dt ELSE 0
Tweener_is_idle(self) == self = 0

\* AudioSound::new, without the store to the shared status
AudioSound_new(fade_in) ==
    [state |-> "Playing",
     volume |-> Tweener_new,
     panning |-> Tweener_new,
     volume_fade |-> Tweener_enqueue_now(Tweener_new, fade_in),
     silent |-> FALSE]

\* AudioSound::stop
AudioSound_stop(self, fade_out_tween) ==
    [self EXCEPT !.state = "Stopping",
                 !.volume_fade = Tweener_enqueue_now(@, fade_out_tween)]

\* a status that counts a sound that fades out as playing
AudioSound_wait_status_of_not_stopped(self) ==
    (IF self.state # "Stopped" THEN {"PLAYING"} ELSE {})
    \cup (IF ~Tweener_is_idle(self.volume) THEN {"VOLUME_TWEENING"} ELSE {})
    \cup (IF ~Tweener_is_idle(self.panning) THEN {"PANNING_TWEENING"} ELSE {})

\* AudioSound::wait_status: the set of the flags of the AudioWaitStatus, of
\* which bits() is the encoding that the atomic holds
AudioSound_wait_status(self) ==
    (IF self.state = "Playing" THEN {"PLAYING"} ELSE {})
    \cup (IF ~Tweener_is_idle(self.volume) THEN {"VOLUME_TWEENING"} ELSE {})
    \cup (IF ~Tweener_is_idle(self.panning) THEN {"PANNING_TWEENING"} ELSE {})

\* the arms of the match in on_start_processing
Apply(self, command) ==
    CASE command.kind = "SetVolume" ->
            [self EXCEPT !.volume = Tweener_enqueue_now(@, command.tween)]
      [] command.kind = "SetPanning" ->
            [self EXCEPT !.panning = Tweener_enqueue_now(@, command.tween)]
      [] command.kind = "Stop" -> AudioSound_stop(self, command.tween)

\* a process that lets a faded out sound go on
AudioSound_process_without_stop(self, dt, ends) ==
    LET updated ==
            [self EXCEPT !.volume = Tweener_update(@, dt),
                         !.panning = Tweener_update(@, dt),
                         !.volume_fade = Tweener_update(@, dt)]
        provided == [updated EXCEPT !.silent = @ \/ ends]
    IN  IF provided.silent
        THEN [provided EXCEPT !.state = "Stopped"]
        ELSE provided

\* Sound::process; ends: the source reaches its end and the resampler puts
\* out silence from this call on
AudioSound_process(self, dt, ends) ==
    LET updated ==
            [self EXCEPT !.volume = Tweener_update(@, dt),
                         !.panning = Tweener_update(@, dt),
                         !.volume_fade = Tweener_update(@, dt)]
        faded ==
            IF updated.state = "Stopping"
                  /\ Tweener_is_idle(updated.volume_fade)
            THEN [updated EXCEPT !.state = "Stopped"]
            ELSE updated
        provided == [faded EXCEPT !.silent = @ \/ ends]
    IN  IF provided.silent
        THEN [provided EXCEPT !.state = "Stopped"]
        ELSE provided

\* a finished that leaves the shared status as it is
AudioSound_finished_without_store(self, status) ==
    [result |-> self.state = "Stopped", wait_status |-> status]

\* Sound::finished: the result and the shared status after the call
AudioSound_finished(self, status) ==
    LET result == self.state = "Stopped"
    IN  [result |-> result,
         wait_status |-> IF result THEN AudioSound_wait_status(self)
                         ELSE status]

\* AudioHandle::set_volume, set_panning and stop: push unless the buffer is
\* full
HandlePush ==
    /\ pushes < MaxCommands
    /\ Len(commands) < COMMAND_BUFFER_CAPACITY
    /\ \E command \in Commands : commands' = Append(commands, command)
    /\ pushes' = pushes + 1
    /\ UNCHANGED <<sound, shared, audio_pc, last_finished, observed,
                   constexprVars, routerVars, parseVars, idVars>>

\* the mixer enters on_start_processing
OnStartProcessing ==
    /\ audio_pc = "idle"
    /\ audio_pc' = "draining"
    /\ last_finished' = FALSE
    /\ UNCHANGED <<sound, commands, pushes, shared, observed,
                   constexprVars, routerVars, parseVars, idVars>>

\* one turn of the while let: try_pop takes the oldest command, which is
\* applied, or finds the buffer empty, which ends the loop
TryPop ==
    /\ audio_pc = "draining"
    /\ IF commands # <<>>
       THEN /\ sound' = Apply(sound, Head(commands))
            /\ commands' = Tail(commands)
            /\ UNCHANGED audio_pc
       ELSE /\ audio_pc' = "storing"
            /\ UNCHANGED <<sound, commands>>
    /\ UNCHANGED <<pushes, shared, last_finished, observed,
                   constexprVars, routerVars, parseVars, idVars>>

\* the store that ends on_start_processing
StoreStatus ==
    /\ audio_pc = "storing"
    /\ shared' = AudioSound_wait_status(sound)
    /\ audio_pc' = "idle"
    /\ UNCHANGED <<sound, commands, pushes, last_finished, observed,
                   constexprVars, routerVars, parseVars, idVars>>

Process ==
    /\ audio_pc = "idle"
    /\ \E dt \in Steps, ends \in BOOLEAN :
          sound' = AudioSound_process(sound, dt, ends)
    /\ last_finished' = FALSE
    /\ UNCHANGED <<commands, pushes, shared, audio_pc, observed,
                   constexprVars, routerVars, parseVars, idVars>>

Finished ==
    /\ audio_pc = "idle"
    /\ LET call == AudioSound_finished(sound, shared)
       IN  /\ last_finished' = call.result
           /\ shared' = call.wait_status
    /\ UNCHANGED <<sound, commands, pushes, audio_pc, observed,
                   constexprVars, routerVars, parseVars, idVars>>

\* the mixer drops a sound whose finished() returned true
Drop ==
    /\ audio_pc = "idle"
    /\ last_finished
    /\ audio_pc' = "dropped"
    /\ UNCHANGED <<sound, commands, pushes, shared, last_finished, observed,
                   constexprVars, routerVars, parseVars, idVars>>

\* a thread that waits for the sound not to play loads the status
Wait ==
    /\ audio_pc = "dropped"
    /\ observed' = IF "PLAYING" \in shared THEN "playing" ELSE "not playing"
    /\ UNCHANGED <<sound, commands, pushes, shared, audio_pc, last_finished,
                   constexprVars, routerVars, parseVars, idVars>>

\* a sound right after AudioSound::new, which stores its status
Created(fade_in) ==
    /\ sound = AudioSound_new(fade_in)
    /\ commands = <<>>
    /\ pushes = 0
    /\ shared = AudioSound_wait_status(AudioSound_new(fade_in))
    /\ audio_pc = "idle"
    /\ last_finished = FALSE
    /\ observed = "nothing"

AudioIdle == Created(0)

-----------------------------------------------------------------------------
(* The arena, the evaluation and the specifications                        *)

\* HIR lowering allocates one more expression; its operands are nodes that
\* are not yet the operand of another node
AllocExpr ==
    /\ ret = NoRet
    /\ Len(exprs) < MaxExprs
    /\ LET roots == (1..Len(exprs)) \ parented
           ops == Resolved(BinaryOps) \cup {None}
       IN  \E e \in LeafExprs \cup UnaryExprs(roots)
                       \cup BinaryExprs(roots, ops) :
              /\ e.kind = "BinaryOp" => e.lhs # e.rhs
              /\ exprs' = Append(exprs, e)
              /\ parented' = parented \cup Operands(e)
    /\ UNCHANGED <<context, ret, routerVars, parseVars, idVars, audioVars>>

Max(S) == CHOOSE x \in S : \A y \in S : y <= x

\* as AllocExpr, for blocks of integer literals and arithmetic only, lowered
\* depth-first: the operands of a node are the two expressions completed last
AllocArithExpr ==
    /\ ret = NoRet
    /\ Len(exprs) < MaxArithExprs
    /\ LET roots == (1..Len(exprs)) \ parented
           last == IF roots = {} THEN {} ELSE {Max(roots)}
           before == IF roots \ last = {} THEN {} ELSE {Max(roots \ last)}
       IN  \E e \in { [kind |-> "IntNumber", value |-> v] : v \in ArithSamples }
                       \cup { b \in BinaryExprs(roots, Resolved(ArithOps)) :
                                b.lhs \in before /\ b.rhs \in last } :
              /\ exprs' = Append(exprs, e)
              /\ parented' = parented \cup Operands(e)
    /\ UNCHANGED <<context, ret, routerVars, parseVars, idVars, audioVars>>

\* an evaluation that pushes onto the diagnostics list of the call before it
ConstexprEvaluate_shared_sink ==
    /\ \E expr \in 1..Len(exprs) :
          LET r == constexpr_evaluate(context, exprs, expr)
          IN  ret' = [r EXCEPT !.diagnostics = ret.diagnostics \o @]
    /\ UNCHANGED <<context, exprs, parented, routerVars, parseVars, idVars, audioVars>>

ConstexprEvaluate ==
    /\ \E expr \in 1..Len(exprs) :
          ret' = constexpr_evaluate(context, exprs, expr)
    /\ UNCHANGED <<context, exprs, parented, routerVars, parseVars, idVars, audioVars>>

RouterIdle ==
    /\ router = <<>>
    /\ added = <<>>
    /\ built = FALSE
    /\ collectors = <<>>
    /\ dispatches = <<>>

Init ==
    /\ context = AliasContext
    /\ exprs = <<>>
    /\ parented = {}
    /\ ret = NoRet
    /\ RouterIdle
    /\ ParseIdle
    /\ IdIdle
    /\ AudioIdle

Next == AllocExpr \/ ConstexprEvaluate

Spec == Init /\ [][Next]_vars

InitArith ==
    /\ context = <<>>
    /\ exprs = <<>>
    /\ parented = {}
    /\ ret = NoRet
    /\ RouterIdle
    /\ ParseIdle
    /\ IdIdle
    /\ AudioIdle

NextArith == AllocArithExpr \/ ConstexprEvaluate

SpecArith == InitArith /\ [][NextArith]_vars

InitRouter ==
    /\ context = AliasContext
    /\ exprs = <<>>
    /\ parented = {}
    /\ ret = NoRet
    /\ RouterIdle
    /\ ParseIdle
    /\ IdIdle
    /\ AudioIdle

NextRouter == RouterBuilderAdd \/ RouterBuilderBuild \/ HandleInstr

SpecRouter == InitRouter /\ [][NextRouter]_vars

InitParse ==
    /\ context = AliasContext
    /\ exprs = <<>>
    /\ parented = {}
    /\ ret = NoRet
    /\ RouterIdle
    /\ ParseIdle
    /\ IdIdle
    /\ AudioIdle

NextParse == SourceFileParse \/ ParseToSyntax \/ ParseCast \/ ParseOk

SpecParse == InitParse /\ [][NextParse]_vars

NextId == IdTryNew \/ IdNew \/ IdTryNext \/ IdNext \/ IdOptSome

InitId ==
    /\ context = AliasContext
    /\ exprs = <<>>
    /\ parented = {}
    /\ ret = NoRet
    /\ RouterIdle
    /\ ParseIdle
    /\ idType \in { Built(ty, checks) : ty \in IdTypes, checks \in BOOLEAN }
    /\ held = None
    /\ idCall = NoIdCall
    /\ AudioIdle

SpecId == InitId /\ [][NextId]_vars

InitAudio ==
    /\ context = AliasContext
    /\ exprs = <<>>
    /\ parented = {}
    /\ ret = NoRet
    /\ RouterIdle
    /\ ParseIdle
    /\ IdIdle
    /\ \E fade_in \in FadeIns : Created(fade_in)

NextAudio ==
    \/ HandlePush
    \/ OnStartProcessing
    \/ TryPop
    \/ StoreStatus
    \/ Process
    \/ Finished
    \/ Drop
    \/ Wait

SpecAudio == InitAudio /\ [][NextAudio]_vars

\* the mixer keeps calling the sound: an on_start_processing that has begun
\* runs to its end, and process and finished are called again and again
SpecAudioLive ==
    /\ SpecAudio
    /\ WF_vars(TryPop)
    /\ WF_vars(StoreStatus)
    /\ SF_vars(Process)
    /\ SF_vars(Finished)

-----------------------------------------------------------------------------
(* Properties of constexpr_evaluate                                        *)

\* constexpr_evaluate has been called and has returned
Returned == ret # NoRet /\ ret.value # Panic
Failed == Returned /\ ret.value = Err
Evaluated == IF ret = NoRet THEN [kind |-> "None"] ELSE exprs[ret.expr]

\* the ids of the subtree of the arena rooted at expr
RECURSIVE Subtree(_, _)
Subtree(block, expr) ==
    LET e == block[expr]
    IN  {expr} \cup
        (CASE e.kind = "UnaryOp" -> Subtree(block, e.expr)
           [] e.kind = "BinaryOp" ->
                 Subtree(block, e.lhs) \cup Subtree(block, e.rhs)
           [] OTHER -> {})

\* the nodes whose failure was reported before this evaluation: a missing
\* expression, an alias whose own evaluation failed, a binary operation
\* whose operator is missing
ReportedElsewhere(ctxt, e) ==
    \/ e.kind = "Missing"
    \/ /\ e.kind = "NameRef"
       /\ e.name \in DOMAIN ctxt
       /\ ctxt[e.name].kind = "Value"
       /\ ctxt[e.name].value = Err
    \/ e.kind = "BinaryOp" /\ e.op = None

\* what the operand id evaluates to on its own
ValueOf(id) == constexpr_evaluate(context, exprs, id).value

IsLiteral(id) == exprs[id].kind = "IntNumber"

\* C1 as stated: a failed result always comes with at least one diagnostic.
C1_EveryFailureHasDiagnostic ==
    Failed => Len(ret.diagnostics) >= 1

\* C1, amended: a failed result comes with at least one diagnostic unless
\* the subtree holds a node whose failure was reported elsewhere (Missing, a
\* name bound to a failed value, a binary operation without operator).
C1_FailureHasDiagnosticUnlessReportedElsewhere ==
    (/\ Failed
     /\ \A id \in Subtree(exprs, ret.expr) :
           ~ReportedElsewhere(context, exprs[id]))
        => Len(ret.diagnostics) >= 1

C1_Witness ==
    /\ Failed
    /\ Evaluated.kind = "BinaryOp"
    /\ \A id \in Subtree(exprs, ret.expr) :
          ~ReportedElsewhere(context, exprs[id])
    /\ Len(ret.diagnostics) = 2

\* the operation fits in an i32, stated without leaving the i32 range
AddFits(a, b) ==
    ~((b > 0 /\ a > I32_MAX - b) \/ (b < 0 /\ a < I32_MIN - b))
SubFits(a, b) ==
    ~((b < 0 /\ a > I32_MAX + b) \/ (b > 0 /\ a < I32_MIN + b))
MulFits(a, b) ==
    \/ a = 0 \/ b = 0
    \/ a > 0 /\ b > 0 /\ a <= I32_MAX \div b
    \/ a > 0 /\ b < 0 /\ b >= (I32_MIN + a - 1) \div a
    \/ a < 0 /\ b > 0 /\ a >= (I32_MIN + b - 1) \div b
    \/ a < 0 /\ b < 0 /\ a # I32_MIN /\ b # I32_MIN
          /\ (-a) <= I32_MAX \div (-b)
DivFits(a, b) == b # 0 /\ ~(a = I32_MIN /\ b = -1)

Fits(op, a, b) ==
    CASE op = "Add" -> AddFits(a, b)
      [] op = "Subtract" -> SubFits(a, b)
      [] op = "Multiply" -> MulFits(a, b)
      [] op = "Divide" -> DivFits(a, b)

\* b divides a, for b # 0
Divides(b, a) ==
    IF b = I32_MIN THEN a \in {0, I32_MIN}
    ELSE a % (IF b < 0 THEN -b ELSE b) = 0

\* the quotient of a by b rounded towards zero: the quotient rounded down,
\* plus one when it is negative and inexact
RefQuotient(a, b) ==
    IF Divides(b, a) \/ ((a < 0) = (b < 0)) THEN a \div b
    ELSE (a \div b) + 1

\* v is the exact result of a op b
IsExact(op, v, a, b) ==
    CASE op = "Add" -> v = a + b
      [] op = "Subtract" -> v = a - b
      [] op = "Multiply" -> v = a * b
      [] op = "Divide" -> v = RefQuotient(a, b)

OverflowAt(expr) == make_diagnostic(ExprLoc(expr), OverflowMessage)

\* a binary operation with an arithmetic operator was evaluated
ArithEvaluated ==
    /\ ret # NoRet
    /\ Evaluated.kind = "BinaryOp"
    /\ Evaluated.op # None
    /\ Evaluated.op.value \in ArithOps

\* C2: for integer literals a and b and an operator among add, subtract,
\* multiply, divide (b # 0), a op b evaluates to the exact result when that
\* fits in 32 bits, and otherwise fails with exactly one overflow diagnostic.
C2_CheckedArithmetic ==
    (/\ ArithEvaluated
     /\ IsLiteral(Evaluated.lhs) /\ IsLiteral(Evaluated.rhs)
     /\ ~(Evaluated.op.value = "Divide" /\ exprs[Evaluated.rhs].value = 0))
        => LET a == exprs[Evaluated.lhs].value
               b == exprs[Evaluated.rhs].value
               op == Evaluated.op.value
           IN  IF Fits(op, a, b)
               THEN /\ ret.value.tag = "Ok"
                    /\ IsExact(op, ret.value.value, a, b)
                    /\ ret.diagnostics = <<>>
               ELSE /\ ret.value = Err
                    /\ ret.diagnostics = <<OverflowAt(ret.expr)>>

\* i32::MIN * -1 was evaluated and failed with the overflow diagnostic
C2_Witness ==
    /\ ArithEvaluated
    /\ Evaluated.op.value = "Multiply"
    /\ exprs[Evaluated.lhs] = [kind |-> "IntNumber", value |-> I32_MIN]
    /\ exprs[Evaluated.rhs] = [kind |-> "IntNumber", value |-> -1]
    /\ ret.value = Err
    /\ ret.diagnostics = <<OverflowAt(ret.expr)>>

\* a division whose operands evaluate successfully, the right one to 0
DivideByZeroEvaluated ==
    /\ ArithEvaluated
    /\ Evaluated.op.value = "Divide"
    /\ ValueOf(Evaluated.lhs).tag = "Ok"
    /\ ValueOf(Evaluated.rhs) = Ok(0)

\* C3: a / 0, for every successfully evaluated a, fails with exactly one
\* diagnostic, "Division by zero", and no overflow diagnostic.
C3_DivisionByZero ==
    DivideByZeroEvaluated
        => /\ ret.value = Err
           /\ ret.diagnostics =
                 <<make_diagnostic(ExprLoc(ret.expr), DivisionByZeroMessage)>>
           /\ \A i \in DOMAIN ret.diagnostics :
                 ret.diagnostics[i].message # OverflowMessage

\* i32::MIN / 0 was evaluated: no overflow is reported for it
C3_Witness ==
    /\ DivideByZeroEvaluated
    /\ ValueOf(Evaluated.lhs) = Ok(I32_MIN)
    /\ Len(ret.diagnostics) = 1
    /\ ret.diagnostics[1].message = DivisionByZeroMessage

\* a negation whose operand evaluates successfully
NegateEvaluated ==
    /\ ret # NoRet
    /\ Evaluated.kind = "UnaryOp"
    /\ Evaluated.op = "Negate"
    /\ ValueOf(Evaluated.expr).tag = "Ok"

\* C4: negating an operand that evaluates to v gives -v unless v is
\* i32::MIN; for i32::MIN it fails with an overflow diagnostic anchored at
\* the negation, and never yields a value.
C4_CheckedNegate ==
    NegateEvaluated
        => LET v == ValueOf(Evaluated.expr).value
           IN  IF v # I32_MIN
               THEN ret.value = Ok(-v) /\ ret.diagnostics = <<>>
               ELSE /\ ret.value = Err
                    /\ ret.diagnostics = <<OverflowAt(ret.expr)>>

C4_Witness ==
    /\ NegateEvaluated
    /\ ValueOf(Evaluated.expr) = Ok(I32_MIN)
    /\ ret.value = Err
    /\ ret.diagnostics = <<OverflowAt(ret.expr)>>

RegisterAt(expr) == make_diagnostic(ExprLoc(expr), RegisterMessage)

\* reg + literal was evaluated
RegisterPlusLiteralEvaluated ==
    /\ ArithEvaluated
    /\ Evaluated.op.value = "Add"
    /\ exprs[Evaluated.lhs].kind = "RegisterRef"
    /\ IsLiteral(Evaluated.rhs)

\* C5: a register reference always fails with the diagnostic "Registers
\* cannot be used in const context", and reg + literal fails with exactly
\* one diagnostic in total, that one.
C5_RegisterRejected ==
    /\ (ret # NoRet /\ Evaluated.kind = "RegisterRef")
          => /\ ret.value = Err
             /\ ret.diagnostics = <<RegisterAt(ret.expr)>>
    /\ RegisterPlusLiteralEvaluated
          => /\ ret.value = Err
             /\ ret.diagnostics = <<RegisterAt(Evaluated.lhs)>>

C5_Witness ==
    /\ RegisterPlusLiteralEvaluated
    /\ ret.value = Err
    /\ Len(ret.diagnostics) = 1

\* the name reference is bound to a code block
IsBlockRef(e) ==
    /\ e.kind = "NameRef"
    /\ e.name \in DOMAIN context
    /\ context[e.name].kind = "Block"

\* the kind a type-mismatch diagnostic names for the expression
FoundKind(e) ==
    CASE e.kind = "String" -> "string"
      [] e.kind = "Array" -> "array"
      [] e.kind = "RegisterRef" -> "register"
      [] e.kind = "NameRef" -> "code reference"

HasTypeMismatch(found) ==
    \E i \in DOMAIN ret.diagnostics :
        ret.diagnostics[i].message = TypeMismatchText("int or float", found)

\* C6 as stated: strings, arrays, register references and names of code
\* blocks all fail with a type mismatch naming the found kind.
C6_TypeMismatchForAllFour ==
    (/\ ret # NoRet
     /\ \/ Evaluated.kind \in {"String", "Array", "RegisterRef"}
        \/ IsBlockRef(Evaluated))
        => ret.value = Err /\ HasTypeMismatch(FoundKind(Evaluated))

\* C6, amended: strings, arrays and names of code blocks fail with a type
\* mismatch naming the found kind; a register reference fails with the
\* register diagnostic, which is not a type mismatch.
C6_TypeMismatchExceptRegister ==
    /\ (/\ ret # NoRet
        /\ \/ Evaluated.kind \in {"String", "Array"}
           \/ IsBlockRef(Evaluated))
          => /\ ret.value = Err
             /\ Len(ret.diagnostics) = 1
             /\ HasTypeMismatch(FoundKind(Evaluated))
    /\ (ret # NoRet /\ Evaluated.kind = "RegisterRef")
          => /\ ret.value = Err
             /\ ret.diagnostics = <<RegisterAt(ret.expr)>>
             /\ ~HasTypeMismatch("register")

C6_Witness ==
    /\ ret # NoRet
    /\ Evaluated.kind = "Array"
    /\ ret.value = Err
    /\ HasTypeMismatch("array")

\* the diagnostic for a reference at expr to a code block defined at span
CodeReferenceAt(expr, span) ==
    [message |-> TypeMismatchText("int or float", "code reference"),
     location |-> ExprLoc(expr),
     additional_labels |->
         <<[message |-> "Code reference defined at",
            location |-> SpanLoc(span)]>>]

\* FOO + 1, for any name of a code block and any literal, was evaluated
BlockRefOperandEvaluated ==
    /\ ArithEvaluated
    /\ IsBlockRef(exprs[Evaluated.lhs])
    /\ IsLiteral(Evaluated.rhs)

\* C7: a reference to a name bound to a code block defined at span S, alone
\* or as the operand in FOO + 1, fails with a type mismatch located at the
\* reference and carrying exactly one additional label, located at S.
C7_CodeReferenceLabel ==
    /\ (ret # NoRet /\ IsBlockRef(Evaluated))
          => /\ ret.value = Err
             /\ ret.diagnostics =
                   <<CodeReferenceAt(ret.expr, context[Evaluated.name].span)>>
    /\ BlockRefOperandEvaluated
          => /\ ret.value = Err
             /\ ret.diagnostics =
                   <<CodeReferenceAt(Evaluated.lhs,
                                     context[exprs[Evaluated.lhs].name].span)>>

C7_Witness ==
    /\ BlockRefOperandEvaluated
    /\ exprs[Evaluated.lhs].name = "BAR"
    /\ Len(ret.diagnostics) = 1
    /\ ret.diagnostics[1].additional_labels[1].location = SpanLoc("S2")

\* a binary operation with an operator other than the four, on operands
\* that evaluate successfully, or a call
UnsupportedEvaluated ==
    /\ ret # NoRet
    /\ \/ Evaluated.kind = "Call"
       \/ /\ Evaluated.kind = "BinaryOp"
          /\ Evaluated.op # None
          /\ Evaluated.op.value \notin ArithOps
          /\ ValueOf(Evaluated.lhs).tag = "Ok"
          /\ ValueOf(Evaluated.rhs).tag = "Ok"

\* C8: an unsupported binary operator or a call ends in a failed result with
\* a diagnostic; the evaluation never aborts.
C8_UnsupportedIsDiagnosed ==
    UnsupportedEvaluated
        => /\ ret.value = Err
           /\ Len(ret.diagnostics) >= 1

\* the reference evaluator: the value of an expression of integer literals
\* and arithmetic, None when a result leaves the i32 range or a divisor is 0
RECURSIVE RefEval(_, _)
RefEval(block, expr) ==
    LET e == block[expr]
    IN  IF e.kind = "IntNumber" THEN Some(e.value)
        ELSE LET l == RefEval(block, e.lhs)
                 r == RefEval(block, e.rhs)
                 op == e.op.value
             IN  IF l = None \/ r = None THEN None
                 ELSE IF ~Fits(op, l.value, r.value) THEN None
                 ELSE Some(CASE op = "Add" -> l.value + r.value
                             [] op = "Subtract" -> l.value - r.value
                             [] op = "Multiply" -> l.value * r.value
                             [] op = "Divide" ->
                                   RefQuotient(l.value, r.value))

\* C9: an expression of integer literals and add, subtract, multiply and
\* divide nodes in which nothing overflows and no divisor is zero evaluates,
\* in the empty context, to the value of the reference evaluator, with no
\* diagnostic.
C9_AgreesWithReference ==
    (ret # NoRet /\ RefEval(exprs, ret.expr) # None)
        => /\ ret.value = Ok(RefEval(exprs, ret.expr).value)
           /\ ret.diagnostics = <<>>

\* 2 + 3 * 4 was evaluated to 14
C9_Witness ==
    /\ ret # NoRet
    /\ context = <<>>
    /\ Evaluated.kind = "BinaryOp"
    /\ Evaluated.op = Some("Add")
    /\ exprs[Evaluated.lhs] = [kind |-> "IntNumber", value |-> 2]
    /\ exprs[Evaluated.rhs].kind = "BinaryOp"
    /\ exprs[Evaluated.rhs].op = Some("Multiply")
    /\ exprs[exprs[Evaluated.rhs].lhs] = [kind |-> "IntNumber", value |-> 3]
    /\ exprs[exprs[Evaluated.rhs].rhs] = [kind |-> "IntNumber", value |-> 4]
    /\ ret.value = Ok(14)
    /\ ret.diagnostics = <<>>

-----------------------------------------------------------------------------
(* Properties of the router                                                *)

\* no link of the chain is bound to the name
Unregistered(instr_name) ==
    \A k \in DOMAIN router : router[k].name # instr_name

\* C10: dispatching a mnemonic that equals none of the registered names
\* returns None, emits exactly one diagnostic, "Unrecognized instruction"
\* naming the mnemonic and anchored at the instruction, and invokes no
\* argument extractor and no lowering function.
C10_UnregisteredMnemonic ==
    \A i \in DOMAIN dispatches :
        LET d == dispatches[i]
        IN  Unregistered(d.instr_name)
               => /\ d.result = None
                  /\ d.after =
                        Append(d.before,
                               [location |-> InstrLoc(d.instr),
                                message |-> UnrecognizedText(d.instr_name)])
                  /\ d.invoked = <<>>

\* a router with NOP only was asked for JMP
C10_Witness ==
    /\ Len(router) = 1
    /\ router[1].name = "NOP"
    /\ Len(dispatches) >= 1
    /\ dispatches[1].instr_name = "JMP"
    /\ dispatches[1].result = None
    /\ Len(collectors) = 1

\* the diagnostics a dispatch added to the collectors
Emitted(d) == SubSeq(d.after, Len(d.before) + 1, Len(d.after))

\* C11: on one built router, two dispatches of the same mnemonic with the
\* same instruction of the same block select the same handler, return the
\* same Option<Instruction> and emit the same diagnostics, whatever the
\* collectors held when each of them started.
C11_DispatchIsDeterministic ==
    \A i, j \in DOMAIN dispatches :
        LET d == dispatches[i]
            e == dispatches[j]
        IN  (d.instr_name = e.instr_name /\ d.instr = e.instr)
               => /\ d.invoked = e.invoked
                  /\ d.result = e.result
                  /\ Emitted(d) = Emitted(e)

\* the same registered mnemonic was dispatched twice with the same
\* instruction, the second time on collectors that held a diagnostic
C11_Witness ==
    /\ Len(dispatches) = 2
    /\ dispatches[1].instr_name = dispatches[2].instr_name
    /\ dispatches[1].instr = dispatches[2].instr
    /\ ~Unregistered(dispatches[1].instr_name)
    /\ dispatches[1].before = <<>>
    /\ dispatches[2].before # <<>>
    /\ dispatches[2].invoked # <<>>

\* the positions of the add calls that registered the name
Registrations(instr_name) ==
    { k \in DOMAIN added : added[k].name = instr_name }

\* C12: a dispatched mnemonic that was registered by one or more add calls
\* is handled by the handler of the latest of them: every extractor and
\* lowering call the dispatch makes is on that handler, none on the handler
\* of an earlier add of the same name.
C12_LatestRegistrationWins ==
    \A i \in DOMAIN dispatches :
        LET d == dispatches[i]
            regs == Registrations(d.instr_name)
        IN  regs # {}
               => /\ d.invoked # <<>>
                  /\ \A c \in DOMAIN d.invoked :
                        d.invoked[c].link = added[Max(regs)]

\* a name was registered twice with different handlers and then dispatched
C12_Witness ==
    \E i \in DOMAIN dispatches :
        LET regs == Registrations(dispatches[i].instr_name)
        IN  /\ Cardinality(regs) >= 2
            /\ \E k \in regs : added[k] # added[Max(regs)]
            /\ dispatches[i].invoked # <<>>

\* the link of the chain that a dispatch of the name reaches first
MatchedLink(instr_name) ==
    router[CHOOSE k \in DOMAIN router :
              /\ router[k].name = instr_name
              /\ \A l \in 1..(k - 1) : router[l].name # instr_name]

\* the matched handler's argument extraction fails for the dispatch
ExtractionFails(d) ==
    /\ ~Unregistered(d.instr_name)
    /\ from_instr_args(MatchedLink(d.instr_name).lower_fn, d.before,
                       d.instr).args = None

\* the matched handler extracts the arguments and fails to lower them
LoweringFails(d) ==
    /\ ~Unregistered(d.instr_name)
    /\ LET lower_fn == MatchedLink(d.instr_name).lower_fn
           extracted == from_instr_args(lower_fn, d.before, d.instr)
       IN  /\ extracted.args # None
           /\ lower_instr(lower_fn, extracted.collectors, d.instr_name,
                          d.instr, extracted.args.value).result = None

IsUnrecognized(diagnostic) ==
    diagnostic.message.template = "Unrecognized instruction: {}"

\* C13: when the mnemonic matches a link and the link's extraction or its
\* lowering fails, handle_instr returns None and has emitted one diagnostic
\* or more, none of them "Unrecognized instruction"; after a failed
\* extraction the lowering function is not called.
C13_MatchedFailureStopsTheChain ==
    \A i \in DOMAIN dispatches :
        LET d == dispatches[i]
        IN  /\ (ExtractionFails(d) \/ LoweringFails(d))
                  => /\ d.result = None
                     /\ Emitted(d) # <<>>
                     /\ \A k \in DOMAIN Emitted(d) :
                           ~IsUnrecognized(Emitted(d)[k])
            /\ ExtractionFails(d)
                  => \A c \in DOMAIN d.invoked :
                        d.invoked[c].fn # "lower_instr"

\* one dispatch failed in the extractor, another one in the lowering
C13_Witness ==
    /\ \E i \in DOMAIN dispatches : ExtractionFails(dispatches[i])
    /\ \E i \in DOMAIN dispatches : LoweringFails(dispatches[i])

-----------------------------------------------------------------------------
(* Properties of the parse result                                          *)

\* SourceFile::parse has been called
Parsed == parsed # NoParse

\* the text holds a character that starts no item of the grammar
Malformed(text) == \E i \in DOMAIN text : text[i] = Garbage

\* C14: SourceFile::parse returns for every text, the empty one and garbage
\* included: the assertion on the kind of the root holds, the root of the
\* Parse it returns is a SOURCE_FILE, and what is wrong with the text is in
\* errors().
C14_ParseIsTotal ==
    Parsed
       => /\ parsed.parse # Panic
          /\ SyntaxNode_kind(Parse_syntax_node(parsed.parse)) = "SOURCE_FILE"
          /\ Malformed(parsed.text) => Parse_errors(parsed.parse) # <<>>

\* a text of garbage only was parsed
C14_Witness ==
    /\ Parsed
    /\ Len(parsed.text) = MaxTextLen
    /\ \A i \in DOMAIN parsed.text : parsed.text[i] = Garbage
    /\ parsed.parse # Panic
    /\ Len(Parse_errors(parsed.parse)) = MaxTextLen

\* the kind of the root of the parse result is one that N accepts
RootAccepted(parse, N) ==
    SyntaxNode_kind(Parse_syntax_node(parse)) = AcceptedKind(N)

\* C16: cast::<N>() of a Parse<SyntaxNode> is Some exactly when N accepts
\* the kind of the root; the Parse<N> it then returns has the tree and the
\* error list of the Parse it was called on, and tree() on it does not fail.
C16_CastIsACapabilityCheck ==
    \A i \in DOMAIN casts :
        LET c == casts[i]
        IN  /\ c.result # None <=> RootAccepted(c.from, c.ty)
            /\ c.result # None
                  => /\ c.result.value.green = c.from.green
                     /\ Parse_errors(c.result.value) = Parse_errors(c.from)
                     /\ c.tree # Panic
                     /\ c.tree.syntax = Parse_syntax_node(c.from)

\* the parse result of a text with errors was cast to a type that accepts
\* its root and to one that does not
C16_Witness ==
    /\ \E i \in DOMAIN casts :
          /\ casts[i].result # None
          /\ Parse_errors(casts[i].from) # <<>>
    /\ \E i \in DOMAIN casts : casts[i].result = None

\* C17: the errors of the Parse that SourceFile::parse returns are the
\* errors of the parser in their order, followed by the errors that the
\* validation of the root reports.
C17_ValidationAppends ==
    (Parsed /\ parsed.parse # Panic)
       => LET grammar == parse_text(parsed.text)
              found == validate(SyntaxNode_new_root(grammar.green))
              errors == Parse_errors(parsed.parse)
          IN  /\ Len(errors) = Len(grammar.errors) + Len(found)
              /\ SubSeq(errors, 1, Len(grammar.errors)) = grammar.errors
              /\ SubSeq(errors, Len(grammar.errors) + 1, Len(errors)) = found

\* a text whose grammar error lies behind its duplicate definition
C17_Witness ==
    /\ Parsed
    /\ parsed.parse # Panic
    /\ Len(Parse_errors(parsed.parse)) = 2
    /\ Parse_errors(parsed.parse)[1].message = "unexpected character"
    /\ Parse_errors(parsed.parse)[2].message = "duplicate definition"
    /\ Parse_errors(parsed.parse)[2].range < Parse_errors(parsed.parse)[1].range

-----------------------------------------------------------------------------
(* Frame properties                                                        *)

\* the expressions of the arena that the evaluation of expr can reach
Reachable(block, expr) == { ExprLoc(x) : x \in Subtree(block, expr) }

\* C18: a call of constexpr_evaluate changes neither the constant context
\* nor the expression arena, whether it succeeds or fails, and the
\* diagnostics it returns are those of this call alone: each is anchored at
\* an expression of the evaluated subtree, none comes from an earlier call.
C18_EvaluationLeavesItsInputs ==
    [][ret' # ret
          => /\ context' = context
             /\ exprs' = exprs
             /\ \A k \in DOMAIN ret'.diagnostics :
                   ret'.diagnostics[k].location
                      \in Reachable(exprs, ret'.expr)]_vars

\* a failed evaluation returned its diagnostic while the arena holds another
\* expression, outside the evaluated subtree, that fails with its own
C18_Witness ==
    /\ Failed
    /\ ret.diagnostics # <<>>
    /\ \E x \in (1..Len(exprs)) \ Subtree(exprs, ret.expr) :
          constexpr_evaluate(context, exprs, x).diagnostics # <<>>

\* a reference to a name that the constant context does not hold was
\* evaluated
UnboundNameEvaluated ==
    /\ ret # NoRet
    /\ Evaluated.kind = "NameRef"
    /\ Evaluated.name \notin DOMAIN context

\* C19: the evaluation of a reference to a name without an entry in the
\* constant context returns a failed result; it does not abort.
C19_UnboundNameIsAFailure ==
    UnboundNameEvaluated => ret.value = Err

\* s is an initial part of t
IsPrefix(s, t) == Len(s) <= Len(t) /\ SubSeq(t, 1, Len(s)) = s

\* what the dispatch would have done on empty collectors
OnFreshCollectors(d) == handle_instr(router, <<>>, d.instr_name, d.instr)

\* C20: on a built router, no handle_instr call changes the chain; the
\* diagnostics that earlier calls emitted stay in the collectors as they
\* are and a call only appends to them; and the result and the diagnostics
\* of a call are those of the same call on empty collectors, whatever the
\* earlier calls did.
C20_DispatchLeavesTheRouter ==
    [][/\ built => router' = router
       /\ IsPrefix(collectors, collectors')
       /\ dispatches' # dispatches
             => LET d == dispatches'[Len(dispatches')]
                IN  /\ d.before = collectors
                    /\ d.after = collectors'
                    /\ d.result = OnFreshCollectors(d).result
                    /\ Emitted(d) = OnFreshCollectors(d).collectors]_vars

\* a dispatch that failed and emitted a diagnostic was followed by one that
\* succeeded and by then found the diagnostic in the collectors
C20_Witness ==
    /\ Len(dispatches) = 2
    /\ dispatches[1].result = None
    /\ dispatches[1].after # <<>>
    /\ dispatches[2].before = dispatches[1].after
    /\ dispatches[2].result # None
    /\ collectors = dispatches[1].after

-----------------------------------------------------------------------------
(* Further properties of constexpr_evaluate                                *)

\* the diagnostics of the operand id evaluated on its own
DiagnosticsOf(id) == constexpr_evaluate(context, exprs, id).diagnostics

\* a binary expression was evaluated of which an operand fails
FailedOperandEvaluated ==
    /\ ret # NoRet
    /\ Evaluated.kind = "BinaryOp"
    /\ ValueOf(Evaluated.lhs) = Err \/ ValueOf(Evaluated.rhs) = Err

\* C21: a binary expression of which an operand fails evaluates both
\* operands, the left one first, fails itself and adds no diagnostic: its
\* diagnostics are those of the left operand followed by those of the right
\* operand.
C21_OperandDiagnosticsInOrder ==
    FailedOperandEvaluated
        => /\ ret.value = Err
           /\ ret.diagnostics =
                 DiagnosticsOf(Evaluated.lhs) \o DiagnosticsOf(Evaluated.rhs)

\* a logical not whose operand evaluates successfully
LogicalNotEvaluated ==
    /\ ret # NoRet
    /\ Evaluated.kind = "UnaryOp"
    /\ Evaluated.op = "LogigalNot"
    /\ ValueOf(Evaluated.expr).tag = "Ok"

\* C22: the logical not of an operand that evaluates to v is 1 for v = 0 and
\* 0 for every other v, negative values and i32::MIN included; it does not
\* fail and emits no diagnostic.
C22_LogicalNot ==
    LogicalNotEvaluated
        => /\ ret.value =
                 Ok(IF ValueOf(Evaluated.expr).value = 0 THEN 1 ELSE 0)
           /\ ret.diagnostics = <<>>

\* the logical not of i32::MIN was evaluated
C22_Witness ==
    /\ LogicalNotEvaluated
    /\ ValueOf(Evaluated.expr) = Ok(I32_MIN)
    /\ ret.value = Ok(0)

\* C28: a constexpr_evaluate call that returns a value returns an empty
\* diagnostics list.
C28_SuccessHasNoDiagnostic ==
    (Returned /\ ret.value.tag = "Ok") => ret.diagnostics = <<>>

\* an operation on the value of an alias succeeded while the arena holds an
\* expression that fails with a diagnostic
C28_Witness ==
    /\ Returned
    /\ ret.value.tag = "Ok"
    /\ Evaluated.kind = "UnaryOp"
    /\ exprs[Evaluated.expr].kind = "NameRef"
    /\ \E x \in 1..Len(exprs) : DiagnosticsOf(x) # <<>>

-----------------------------------------------------------------------------
(* Further properties of the router                                        *)

\* a link is bound to a name that differs from the mnemonic in the case of
\* its letters only
RegisteredInOtherCase(instr_name) ==
    \E k \in DOMAIN router :
        /\ router[k].name # instr_name
        /\ to_ascii_uppercase(router[k].name) = to_ascii_uppercase(instr_name)

\* C23: a dispatch walks the chain from the link added last to the
\* sentinel and compares the names exactly: the extractor and the lowering
\* function it invokes, one call of each at most, are those of the first
\* link whose name equals the mnemonic, a name in another case does not
\* match, and the links that do not match emit nothing, so that the
\* diagnostics of the dispatch are those of the matching link, or of the
\* sentinel, alone.
C23_ExactFirstMatch ==
    \A i \in DOMAIN dispatches :
        LET d == dispatches[i]
        IN  IF Unregistered(d.instr_name)
            THEN /\ d.invoked = <<>>
                 /\ Emitted(d) =
                       SentinelRouter_handle_instr(<<>>, d.instr_name,
                                                   d.instr).collectors
            ELSE LET link == MatchedLink(d.instr_name)
                 IN  /\ Len(d.invoked) \in {1, 2}
                     /\ d.invoked[1] = [fn |-> "from_instr_args", link |-> link]
                     /\ Len(d.invoked) = 2
                           => d.invoked[2] =
                                 [fn |-> "lower_instr", link |-> link]
                     /\ Emitted(d) =
                           ConsRouter_lower(link, <<>>, d.instr_name,
                                            d.instr).collectors

\* nop was dispatched on a chain that binds NOP behind another link, and
\* JMP was dispatched on the same chain and reached its link
C23_Witness ==
    /\ \E i \in DOMAIN dispatches :
          /\ dispatches[i].instr_name = "nop"
          /\ RegisteredInOtherCase("nop")
          /\ dispatches[i].invoked = <<>>
    /\ \E i \in DOMAIN dispatches :
          /\ Len(dispatches[i].invoked) = 2
          /\ dispatches[i].invoked[1].link # router[1]

-----------------------------------------------------------------------------
(* Further properties of the parse result                                  *)

\* C30: Parse::ok is Ok, with the typed tree over the root of the parse, if
\* and only if the error list of the parse is empty; otherwise it is Err
\* with the whole error list as it was.
C30_OkOnlyWithoutErrors ==
    checked # None
       => LET result == checked.value
              errors == Parse_errors(parsed.parse)
          IN  /\ result # Panic
              /\ result.tag = "Ok" <=> errors = <<>>
              /\ result.tag = "Ok"
                    => result.value =
                          [ty |-> "SourceFile",
                           syntax |-> Parse_syntax_node(parsed.parse)]
              /\ result.tag = "Err" => result.errors = errors

\* ok was taken of the parse of a text with a grammar error and a
\* validation error
C30_Witness ==
    /\ checked # None
    /\ checked.value.tag = "Err"
    /\ Len(checked.value.errors) = 2
    /\ checked.value.errors[1].message # checked.value.errors[2].message

-----------------------------------------------------------------------------
(* Properties of Id and IdOpt                                              *)

\* C29: an Id that try_new, new, try_next or next returned has a raw value
\* from 0 up to SENTINEL - 1: try_new(id) is None exactly for id >= SENTINEL,
\* try_next is None exactly on the raw value SENTINEL - 1 and is the Id of
\* the raw value + 1 otherwise; so IdOpt::some(id).into_option() is
\* Some(id), and IdOpt::some(id) is not IdOpt::none().
C29_IdBelowSentinel ==
    /\ held # None => Id_raw(held.value) \in 0..(idType.SENTINEL - 1)
    /\ idCall.op = "try_new"
          => /\ idCall.result = None <=> idCall.arg >= idType.SENTINEL
             /\ idCall.result # None => idCall.result = Some(Id(idCall.arg))
    /\ idCall.op = "try_next"
          => IF idCall.arg = idType.SENTINEL - 1
             THEN idCall.result = None
             ELSE idCall.result = Some(Id(idCall.arg + 1))
    /\ idCall.op = "some"
          => /\ idCall.result = Some(Id(idCall.arg))
             /\ Some(IdOpt_some(Id(idCall.arg))) # IdOpt_none(idType)

\* try_next was called on the last Id of the range and returned None
C29_Witness ==
    /\ held = Some(Id(idType.SENTINEL - 1))
    /\ idCall = IdCalled("try_next", idType.SENTINEL - 1, None)

-----------------------------------------------------------------------------
(* Properties of the sound                                                 *)

\* C24: the state Stopped of a sound is absorbing: no call of
\* on_start_processing, whatever commands the handle has queued, of process
\* or of finished takes a stopped sound back to Playing or Stopping, so
\* finished() keeps returning true.
C24_StoppedIsAbsorbing ==
    [][sound.state = "Stopped" => sound'.state = "Stopped"]_vars

\* C25: when finished() has returned true, the shared status is the status
\* of the sound as it ended, without PLAYING; so the status of a dropped
\* sound is not PLAYING, and a thread that waits on it reads "not playing".
C25_FinishedStoresTheStatus ==
    /\ last_finished
          => /\ sound.state = "Stopped"
             /\ shared = AudioSound_wait_status(sound)
             /\ "PLAYING" \notin shared
    /\ audio_pc = "dropped" => "PLAYING" \notin shared
    /\ observed # "playing"

\* a sound that no command ever reached ran to the end of its source, was
\* dropped, and the waiting thread read its status
C25_Witness ==
    /\ audio_pc = "dropped"
    /\ pushes = 0
    /\ sound.state = "Stopped"
    /\ sound.silent
    /\ observed = "not playing"

\* on_start_processing takes a Stop from the buffer
StopConsumed ==
    /\ audio_pc = "draining"
    /\ commands # <<>>
    /\ Head(commands).kind = "Stop"
    /\ commands' = Tail(commands)

\* process is called on a sound that fades out
ProcessedWhileStopping ==
    /\ audio_pc = "idle"
    /\ sound.state = "Stopping"
    /\ sound' # sound

\* C26: a Stop that on_start_processing consumes leaves the sound Stopping;
\* a process call on a Stopping sound makes it Stopped if the fade of the
\* volume is idle after the call, and otherwise only if the source has run
\* out; and when the mixer keeps calling, a Stopping sound is followed by a
\* finished() that returns true.
C26_StopFadesOutAndStops ==
    /\ [][StopConsumed => sound'.state = "Stopping"]_vars
    /\ [][ProcessedWhileStopping
             => /\ Tweener_is_idle(sound'.volume_fade)
                    => sound'.state = "Stopped"
                /\ sound'.state = "Stopped"
                    => Tweener_is_idle(sound'.volume_fade) \/ sound'.silent
                /\ sound'.state \in {"Stopping", "Stopped"}]_vars
    /\ (sound.state = "Stopping") ~> last_finished

\* finished() returned true on a sound that a Stop faded out before its
\* source ran out
C26_Witness ==
    /\ last_finished
    /\ sound.state = "Stopped"
    /\ ~sound.silent
    /\ pushes > 0

\* what a status says of a sound
StatusReflects(status, self) ==
    /\ status \subseteq {"PLAYING", "VOLUME_TWEENING", "PANNING_TWEENING"}
    /\ "PLAYING" \in status <=> self.state = "Playing"
    /\ "VOLUME_TWEENING" \in status <=> self.volume # 0
    /\ "PANNING_TWEENING" \in status <=> self.panning # 0

\* what a command does to a sound
Commanded(before, command, after) ==
    /\ command.kind = "SetVolume"
          => after = [before EXCEPT !.volume = command.tween]
    /\ command.kind = "SetPanning"
          => after = [before EXCEPT !.panning = command.tween]
    /\ command.kind = "Stop"
          => after = [before EXCEPT !.state = "Stopping",
                                    !.volume_fade = command.tween]

\* C27: the shared status reflects the sound at its creation and after
\* every on_start_processing: the commands leave the buffer oldest first
\* and are applied in that order, the loop ends only on an empty buffer,
\* and the status stored then is the one of the sound as it is, with
\* PLAYING exactly when the state is Playing.
C27_StatusFollowsTheState ==
    /\ StatusReflects(shared, sound)
    /\ [][/\ Len(commands') < Len(commands)
             => /\ audio_pc = "draining"
                /\ commands' = Tail(commands)
                /\ Commanded(sound, Head(commands), sound')
          /\ audio_pc = "draining" /\ sound' # sound
             => Len(commands') < Len(commands)
          /\ audio_pc = "draining" /\ audio_pc' # "draining"
             => /\ commands = <<>>
                /\ audio_pc' = "storing"
                /\ sound' = sound
          /\ audio_pc = "storing" /\ audio_pc' # "storing"
             => /\ audio_pc' = "idle"
                /\ sound' = sound
                /\ StatusReflects(shared', sound')]_vars

\* an on_start_processing has applied a Stop and a change of volume and
\* stored the status of a sound that fades out while its volume changes
C27_Witness ==
    /\ audio_pc = "idle"
    /\ pushes >= 2
    /\ commands = <<>>
    /\ sound.state = "Stopping"
    /\ shared = {"VOLUME_TWEENING"}

=============================================================================
